---- MODULE Spec2Model ----
(***************************************************************************)
(* xregistry/xrproxy: the bridge's URL-rewriting proxy, the npm facade and *)
(* the PyPI facade's middleware chain, as state machines.                  *)
(*                                                                         *)
(* Text is a sequence of one-character strings, so that prefix tests,      *)
(* replacement and URL encoding are computed and not assumed.  A fixed     *)
(* literal of the source ("/noderegistries/npmjs.org/packages/") is one    *)
(* element of such a sequence.                                             *)
(***************************************************************************)
EXTENDS Integers, Sequences, FiniteSets, TLC

VARIABLES
    proxy,      \* bridge: the upstream response handed to proxyRes and what it emitted
    upstream,   \* the npm registry: the document of the package under observation,
                \* or the documents the metadata fetcher asks for
    packageNamesCache, \* npm facade: XRegistryServer.packageNamesCache
    views,      \* npm facade: the views of that package a client has received so far
    listing,    \* npm facade: a packages-collection request and the response to it
    filterOptimizer, \* npm facade: the FilterOptimizer's name index and its build
    chain,      \* npm / PyPI facade: the last request run through the middleware chain
    cacheLoadingPromise, \* npm facade: XRegistryServer.cacheLoadingPromise and the load behind it
    flight,     \* npm facade: requests for one package's metadata and the upstream fetches
    wrapper,    \* restart-wrapper.sh: its variables, its clock and the server it runs
    server      \* npm / PyPI facade: the process between a signal and its exit

vars == <<proxy, upstream, packageNamesCache, views, listing, filterOptimizer, chain,
          cacheLoadingPromise, flight, wrapper, server>>

None == [none |-> TRUE]

(***************************************************************************)
(* Text helpers (String.prototype.startsWith / indexOf / replace).         *)
(***************************************************************************)
StartsWith(s, p) == Len(p) <= Len(s) /\ SubSeq(s, 1, Len(p)) = p

\* Position of the first occurrence of p in s at or after index from; 0 if none.
RECURSIVE IndexFrom(_, _, _)
IndexFrom(s, p, from) ==
    IF from + Len(p) - 1 > Len(s) THEN 0
    ELSE IF SubSeq(s, from, from + Len(p) - 1) = p THEN from
    ELSE IndexFrom(s, p, from + 1)

\* s.replace(p, r) with a string pattern: the first occurrence only.
ReplaceFirst(s, p, r) ==
    LET i == IndexFrom(s, p, 1) IN
    IF i = 0 THEN s
    ELSE SubSeq(s, 1, i - 1) \o r \o SubSeq(s, i + Len(p), Len(s))

\* s.replace(new RegExp(escaped(p), 'g'), r): every occurrence, left to right,
\* the scan resuming after each match.
RECURSIVE ReplaceAll(_, _, _)
ReplaceAll(s, p, r) ==
    LET i == IndexFrom(s, p, 1) IN
    IF Len(p) = 0 \/ i = 0 THEN s
    ELSE SubSeq(s, 1, i - 1) \o r \o ReplaceAll(SubSeq(s, i + Len(p), Len(s)), p, r)

(***************************************************************************)
(* JSON values.  Every value is a record of one shape: t is the type, s    *)
(* the text of a string, items the elements of an array, fields the        *)
(* members of an object in order.                                          *)
(***************************************************************************)
JStr(s) == [t |-> "str", s |-> s, items |-> <<>>, fields |-> <<>>]
JNum == [t |-> "num", s |-> <<>>, items |-> <<>>, fields |-> <<>>]
JArr(items) == [t |-> "arr", s |-> <<>>, items |-> items, fields |-> <<>>]
JObj(fields) == [t |-> "obj", s |-> <<>>, items |-> <<>>, fields |-> fields]
Member(k, v) == [k |-> k, v |-> v]

NoKey == ""

(***************************************************************************)
(* ProxyService.rewriteUrls                                                *)
(***************************************************************************)
RECURSIVE rewriteUrls(_, _, _, _)
rewriteUrls(data, downstreamUrl, bridgeBaseUrl, currentKey) ==
    IF data.t = "str" THEN
        IF currentKey = "xid" THEN data
        ELSE IF StartsWith(data.s, downstreamUrl)
             THEN JStr(ReplaceFirst(data.s, downstreamUrl, bridgeBaseUrl))
             ELSE data
    ELSE IF data.t = "arr" THEN
        \* the recursive call passes no key: currentKey is undefined inside an array
        JArr([i \in 1..Len(data.items) |->
                rewriteUrls(data.items[i], downstreamUrl, bridgeBaseUrl, NoKey)])
    ELSE IF data.t = "obj" THEN
        JObj([i \in 1..Len(data.fields) |->
                Member(data.fields[i].k,
                       rewriteUrls(data.fields[i].v, downstreamUrl, bridgeBaseUrl,
                                   data.fields[i].k))])
    ELSE data

(***************************************************************************)
(* The proxyRes handler of ProxyService.createProxyMiddleware.             *)
(* A response is [status, headers, body]; headers holds the four CORS      *)
(* headers ("" when absent), the Link header (<<>> when absent) and        *)
(* whether Content-Type includes application/json; body is [parses, doc]:  *)
(* the body text, by the JSON value it parses to, or, when it does not     *)
(* parse, by a value that only identifies the text.                        *)
(***************************************************************************)
AllowOrigin == "*"
AllowMethods == "GET, POST, PUT, DELETE, OPTIONS, PATCH"
AllowHeaders == {"Origin", "X-Requested-With", "Content-Type", "Accept", "Authorization",
                 "X-MS-Client-Principal", "X-Base-Url", "X-Correlation-Id", "X-Trace-Id"}
ExposeHeaders == {"X-Correlation-Id", "X-Trace-Id", "X-Request-Id", "Location", "Link",
                  "ETag", "Cache-Control", "Content-Length", "Content-Type", "Date",
                  "Expires", "Last-Modified", "X-Registry-Id", "X-Registry-Version",
                  "X-Registry-Epoch", "X-Registry-Self"}

\* if (!proxyRes.headers[h]) proxyRes.headers[h] = default
addCorsHeaders(h) ==
    [h EXCEPT !.acao = IF h.acao = "" THEN AllowOrigin ELSE h.acao,
              !.acam = IF h.acam = "" THEN AllowMethods ELSE h.acam,
              !.acah = IF h.acah = {} THEN AllowHeaders ELSE h.acah,
              !.aceh = IF h.aceh = {} THEN ExposeHeaders ELSE h.aceh]

rewriteLink(link, targetUrl, actualBaseUrl) ==
    IF link # <<>> THEN ReplaceAll(link, targetUrl, actualBaseUrl) ELSE link

\* chunk.toString('utf8'): a Buffer decoded on its own.  Bytes are written in hex, the
\* ASCII ones as their character; C3 A9 is the two-byte encoding of one character, and
\* a lead byte without its continuation, or a continuation byte on its own, decodes to
\* the replacement character U+FFFD.
RECURSIVE toStringUtf8(_)
toStringUtf8(chunk) ==
    IF chunk = <<>> THEN <<>>
    ELSE IF Head(chunk) = "C3" /\ Len(chunk) > 1 /\ chunk[2] = "A9"
         THEN <<"U+00E9">> \o toStringUtf8(Tail(Tail(chunk)))
    ELSE IF Head(chunk) \in {"C3", "A9"} THEN <<"U+FFFD">> \o toStringUtf8(Tail(chunk))
    ELSE <<Head(chunk)>> \o toStringUtf8(Tail(chunk))

\* body += chunk.toString('utf8') for every chunk of the upstream's body
RECURSIVE collectBody(_)
collectBody(chunks) ==
    IF chunks = <<>> THEN <<>> ELSE toStringUtf8(Head(chunks)) \o collectBody(Tail(chunks))

\* res.end(body): the string written out as UTF-8.
RECURSIVE writeUtf8(_)
writeUtf8(text) ==
    IF text = <<>> THEN <<>>
    ELSE (IF Head(text) = "U+00E9" THEN <<"C3", "A9">>
          ELSE IF Head(text) = "U+FFFD" THEN <<"EF", "BF", "BD">>
          ELSE <<Head(text)>>) \o writeUtf8(Tail(text))

proxyRes(up, targetUrl, actualBaseUrl) ==
    LET headers == addCorsHeaders(up.headers)
        status == IF up.status = 0 THEN 200 ELSE up.status
    IN  IF ~headers.ctJson THEN
            \* pass-through: Link rewritten, body piped
            [status |-> status,
             headers |-> [headers EXCEPT !.link = rewriteLink(@, targetUrl, actualBaseUrl)],
             body |-> up.body, path |-> "passthrough"]
        ELSE IF up.body.parses THEN
            [status |-> status,
             headers |-> [headers EXCEPT !.link = rewriteLink(@, targetUrl, actualBaseUrl)],
             body |-> [parses |-> TRUE,
                       doc |-> rewriteUrls(up.body.doc, targetUrl, actualBaseUrl, NoKey),
                       chunks |-> <<>>],
             path |-> "rewritten"]
        ELSE
            \* catch: res.writeHead(status, proxyRes.headers); res.end(body)
            [status |-> status, headers |-> headers,
             body |-> [up.body EXCEPT !.chunks = <<writeUtf8(collectBody(up.body.chunks))>>],
             path |-> "fallback"]

(***************************************************************************)
(* Inputs of the bridge.                                                   *)
(***************************************************************************)
MaxDepth == 2

\* JSON documents up to a nesting depth: strings that start with, contain or only
\* resemble a downstream URL, under the keys xid and self.
RECURSIVE JsonValues(_)
JsonValues(depth) ==
    LET BodyStrings == {<<"d", "/", "x">>, <<"d", "o", "/", "x">>, <<"d", "o", "o", "/">>,
                        <<"x", "d", "/">>, <<"b", "/", "x">>}
        Keys == {"xid", "self"}
    IN  IF depth = 0 THEN {JStr(s) : s \in BodyStrings} \cup {JNum}
        ELSE LET sub == JsonValues(depth - 1) IN
             sub \cup {JArr(<<x>>) : x \in sub}
                 \cup {JObj(<<Member(k, x)>>) : k \in Keys, x \in sub}

\* The requests in flight: a downstream URL, the bridge's base URL and the upstream's
\* response.  The body's value matters only where it is parsed, its bytes only where it
\* is not.  Bodies that are not JSON arrive as chunks of bytes: an opening brace alone,
\* followed by a two-byte character, by that character split over two chunks, or by its
\* lead byte only.
ProxyInputs ==
    LET DownstreamUrls == {<<"d">>, <<"d", "o">>}
        BridgeUrls == {<<"b">>, <<"d", "r">>, <<"d">>}
        LinkHeaders == {<<>>, <<"<", "d", "/", "p", ">">>, <<"<", "d", "o", "o", "/", "p", ">">>}
        UpstreamHeaders ==
            {[acao |-> o, acam |-> "", acah |-> h, aceh |-> h, link |-> l, ctJson |-> j] :
                o \in {"", "https://up"}, h \in {{}, {"X-Up"}}, l \in LinkHeaders, j \in BOOLEAN}
        UnparsableBodies ==
            {<<<<"{">>>>, <<<<"{", "C3", "A9">>>>, <<<<"{", "C3">>, <<"A9">>>>, <<<<"{", "C3">>>>}
        UpstreamResponses ==
            {[status |-> s, headers |-> h, body |-> [parses |-> TRUE, doc |-> d, chunks |-> <<>>]] :
                s \in {200, 404}, h \in UpstreamHeaders, d \in JsonValues(MaxDepth)}
            \cup {[status |-> s, headers |-> h,
                   body |-> [parses |-> FALSE, doc |-> JNum, chunks |-> c]] :
                    s \in {200, 404}, h \in UpstreamHeaders, c \in UnparsableBodies}
    IN  {[stage |-> "received", targetUrl |-> u, actualBaseUrl |-> b, up |-> up, out |-> up] :
            u \in DownstreamUrls, b \in BridgeUrls,
            up \in {r \in UpstreamResponses :
                        /\ (r.headers.acao = "") = (r.headers.acah = {})
                        /\ (r.headers.ctJson /\ r.body.parses) \/ r.body.doc = JNum}}

AsUpstream(res) == [status |-> res.status, headers |-> res.headers, body |-> res.body]

\* The facade's response arrives at the bridge and is rewritten and emitted.
ProxyResponse ==
    /\ proxy.stage = "received"
    /\ proxy' = [proxy EXCEPT !.stage = "once",
                              !.out = proxyRes(proxy.up, proxy.targetUrl, proxy.actualBaseUrl)]
    /\ UNCHANGED <<upstream, packageNamesCache, views, listing, filterOptimizer, chain,
                   cacheLoadingPromise, flight, wrapper, server>>

\* The emitted response is handed to the same handler once more.
ProxyResponseAgain ==
    /\ proxy.stage = "once"
    /\ proxy' = [proxy EXCEPT !.stage = "again",
                              !.up = AsUpstream(proxy.out),
                              !.out = proxyRes(AsUpstream(proxy.out),
                                               proxy.targetUrl, proxy.actualBaseUrl)]
    /\ UNCHANGED <<upstream, packageNamesCache, views, listing, filterOptimizer, chain,
                   cacheLoadingPromise, flight, wrapper, server>>

InitProxy ==
    /\ proxy \in ProxyInputs
    /\ upstream = None
    /\ packageNamesCache = <<>>
    /\ views = None
    /\ listing = None
    /\ filterOptimizer = None
    /\ chain = None
    /\ cacheLoadingPromise = None
    /\ flight = None
    /\ wrapper = None
    /\ server = None

SpecProxy == InitProxy /\ [][ProxyResponse \/ ProxyResponseAgain]_vars

(***************************************************************************)
(* npm facade: numbers, query parameters, text order.                      *)
(***************************************************************************)
\* A JavaScript number: an integer or NaN.
Num(n) == [nan |-> FALSE, n |-> n]
NaN == [nan |-> TRUE, n |-> 0]

Digits == <<"0", "1", "2", "3", "4", "5", "6", "7", "8", "9">>
IsDigit(c) == \E i \in 1..Len(Digits) : Digits[i] = c

RECURSIVE DigitsValue(_, _, _)
DigitsValue(s, i, acc) ==
    IF i > Len(s) \/ ~IsDigit(s[i]) THEN acc
    ELSE LET DigitVal == (CHOOSE d \in 1..Len(Digits) : Digits[d] = s[i]) - 1
         IN  DigitsValue(s, i + 1, acc * 10 + DigitVal)

\* parseInt(s, 10): an optional sign, then the longest run of digits; NaN without one.
parseInt(s) ==
    LET neg == Len(s) > 0 /\ s[1] = "-"
        start == IF Len(s) > 0 /\ s[1] \in {"-", "+"} THEN 2 ELSE 1
    IN  IF start > Len(s) \/ ~IsDigit(s[start]) THEN NaN
        ELSE Num((IF neg THEN -1 ELSE 1) * DigitsValue(s, start, 0))

\* A query parameter: absent (undefined) or its text.
Absent == [present |-> FALSE, text |-> <<>>]
Param(text) == [present |-> TRUE, text |-> text]
\* JavaScript truthiness of a query parameter: present and not the empty string.
Truthy(p) == p.present /\ p.text # <<>>
\* parseInt(req.query[name] || dflt, 10)
intParam(p, dflt) == parseInt(IF Truthy(p) THEN p.text ELSE dflt)

Add(a, b) == IF a.nan \/ b.nan THEN NaN ELSE Num(a.n + b.n)
Min(a, b) == IF a < b THEN a ELSE b

\* Array.prototype.slice(start, end): NaN counts as 0, a negative index counts from
\* the end, both are clamped to the array.
slice(seq, start, end) ==
    LET Max(a, b) == IF a > b THEN a ELSE b
        RelIndex(x, len) ==
            IF x.nan THEN 0 ELSE IF x.n < 0 THEN Max(len + x.n, 0) ELSE Min(x.n, len)
        k == RelIndex(start, Len(seq))
        final == RelIndex(end, Len(seq))
    IN  IF final <= k THEN <<>> ELSE SubSeq(seq, k + 1, final)

toLowerCase(c) ==
    IF c = "A" THEN "a" ELSE IF c = "DESC" THEN "desc"
    ELSE IF c = "Bearer" THEN "bearer" ELSE c
lower(s) == [i \in 1..Len(s) |-> toLowerCase(s[i])]

\* The collation order of the characters package names are made of here.
CollationOrder == <<"/", "@", "a", "A", "b", "c", "s">>
Rank(c) == CHOOSE i \in 1..Len(CollationOrder) : CollationOrder[i] = c

\* a.localeCompare(b, undefined, {sensitivity: 'base'}): -1, 0 or 1, letter case ignored.
RECURSIVE localeCompare(_, _)
localeCompare(a, b) ==
    IF a = <<>> /\ b = <<>> THEN 0
    ELSE IF a = <<>> THEN -1
    ELSE IF b = <<>> THEN 1
    ELSE LET ra == Rank(toLowerCase(Head(a)))
             rb == Rank(toLowerCase(Head(b)))
         IN  IF ra < rb THEN -1
             ELSE IF ra > rb THEN 1
             ELSE localeCompare(Tail(a), Tail(b))

\* Array.prototype.sort with the comparator of the packages handler: a stable
\* insertion sort, desc negating the comparison.
RECURSIVE InsertSorted(_, _, _)
InsertSorted(sorted, x, desc) ==
    IF sorted = <<>> THEN <<x>>
    ELSE LET c == localeCompare(sorted[Len(sorted)], x)
             cmp == IF desc THEN -c ELSE c
         IN  IF cmp <= 0 THEN Append(sorted, x)
             ELSE Append(InsertSorted(SubSeq(sorted, 1, Len(sorted) - 1), x, desc),
                         sorted[Len(sorted)])

RECURSIVE sortNames(_, _)
sortNames(names, desc) ==
    IF names = <<>> THEN <<>>
    ELSE InsertSorted(sortNames(SubSeq(names, 1, Len(names) - 1), desc),
                      names[Len(names)], desc)

\* s.split(sep)
RECURSIVE split(_, _)
split(s, sep) ==
    LET i == IndexFrom(s, sep, 1) IN
    IF i = 0 THEN <<s>>
    ELSE <<SubSeq(s, 1, i - 1)>> \o split(SubSeq(s, i + Len(sep), Len(s)), sep)

includes(s, p) == IndexFrom(s, p, 1) # 0

RECURSIVE trim(_)
trim(s) ==
    IF s # <<>> /\ Head(s) = " " THEN trim(Tail(s))
    ELSE IF s # <<>> /\ s[Len(s)] = " " THEN trim(SubSeq(s, 1, Len(s) - 1))
    ELSE s

\* encodeURIComponent: letters, digits and - _ . ! ~ * ' ( ) stay, the rest is escaped.
RECURSIVE encodeURIComponent(_)
encodeURIComponent(s) ==
    LET encodeChar(c) ==
            IF c = "@" THEN <<"%", "4", "0">>
            ELSE IF c = "/" THEN <<"%", "2", "F">>
            ELSE IF c = "=" THEN <<"%", "3", "D">>
            ELSE IF c = "+" THEN <<"%", "2", "B">>
            ELSE IF c = "&" THEN <<"%", "2", "6">>
            ELSE <<c>>
    IN  IF s = <<>> THEN <<>> ELSE encodeChar(Head(s)) \o encodeURIComponent(Tail(s))

(***************************************************************************)
(* npm facade: filter expressions (XRegistryServer.parseFilterExpressions, *)
(* matchesFilter, handlePackageFilter).                                    *)
(***************************************************************************)
filterPart(part) ==
    IF includes(part, <<"!", "=">>) THEN
        LET pieces == split(part, <<"!", "=">>) IN
        IF pieces[1] # <<>> /\ pieces[2] # <<>>
        THEN <<[field |-> trim(pieces[1]), operator |-> "!=", value |-> trim(pieces[2])]>>
        ELSE <<>>
    ELSE IF includes(part, <<"=">>) THEN
        LET pieces == split(part, <<"=">>) IN
        IF pieces[1] # <<>> /\ pieces[2] # <<>>
        THEN <<[field |-> trim(pieces[1]), operator |-> "=", value |-> trim(pieces[2])]>>
        ELSE <<>>
    ELSE <<>>

RECURSIVE concatParts(_)
concatParts(parts) ==
    IF parts = <<>> THEN <<>> ELSE filterPart(Head(parts)) \o concatParts(Tail(parts))

parseFilterExpressions(filter) == concatParts(split(filter, <<"&">>))

\* new RegExp('^' + pattern + '$', 'i').test(value), pattern being the filter value
\* with every * replaced by .* : a dot of the filter value is the regex dot.
RECURSIVE regexTest(_, _)
regexTest(pattern, value) ==
    IF pattern = <<>> THEN value = <<>>
    ELSE IF Head(pattern) = "*" THEN
        \/ regexTest(Tail(pattern), value)
        \/ value # <<>> /\ regexTest(pattern, Tail(value))
    ELSE /\ value # <<>>
         /\ Head(pattern) = "." \/ toLowerCase(Head(pattern)) = toLowerCase(Head(value))
         /\ regexTest(Tail(pattern), Tail(value))

matchesFilter(value, filter) ==
    IF filter.operator = "=" THEN
        IF includes(filter.value, <<"*">>) THEN regexTest(filter.value, value)
        ELSE lower(value) = lower(filter.value)
    ELSE IF filter.operator = "!=" THEN
        IF includes(filter.value, <<"*">>) THEN ~regexTest(filter.value, value)
        ELSE lower(value) # lower(filter.value)
    ELSE FALSE

\* fetchPackageMetadata, the metadata fetcher handed to the FilterOptimizer: what it
\* returns for a package whose upstream document is registry[packageName].  A failed
\* fetch is caught and answered with the name alone; a document without a description
\* gets the package name for one.
fetchPackageMetadata(packageName, registry) ==
    LET packageData == registry[packageName] IN
    IF ~packageData.ok
    THEN [name |-> packageName, description |-> Absent, license |-> Absent]
    ELSE [name |-> packageName, description |-> Param(packageName),
          license |-> packageData.license]

\* The attribute of fetched metadata a predicate is about.
attributeOf(metadata, field) ==
    IF field = <<"license">> THEN metadata.license
    ELSE IF field = <<"description">> THEN metadata.description
    ELSE Absent

\* A predicate on fetched metadata: an absent attribute equals nothing and differs from
\* everything.
matchesMetadata(metadata, expr) ==
    LET attribute == attributeOf(metadata, expr.field) IN
    IF attribute.present THEN matchesFilter(attribute.text, expr)
    ELSE expr.operator = "!="

\* FilterOptimizer.optimizedFilter, two-step: the indexed names that satisfy every name
\* predicate, in index order; when predicates on other fields remain, the metadata of
\* each candidate is fetched and the candidate kept when it satisfies them.
optimizedFilter(filter, names, registry) ==
    LET exprs == parseFilterExpressions(filter)
        candidates == SelectSeq(names, LAMBDA n :
            \A i \in 1..Len(exprs) :
                exprs[i].field = <<"name">> => matchesFilter(n, exprs[i]))
    IN  IF \A i \in 1..Len(exprs) : exprs[i].field = <<"name">> THEN candidates
        ELSE SelectSeq(candidates, LAMBDA n :
                \A i \in 1..Len(exprs) :
                    exprs[i].field # <<"name">>
                        => matchesMetadata(fetchPackageMetadata(n, registry), exprs[i]))

\* The upstream's answer to NpmService.searchPackages: the call throws, or returns a
\* result without objects, or objects (each by the name of its package, <<>> for none).
SearchThrows == [kind |-> "throws", names |-> <<>>]
SearchNull == [kind |-> "null", names |-> <<>>]
SearchObjects(names) == [kind |-> "objects", names |-> names]

\* The name predicates of the fallback loop that issue a search call.
searching(filters) ==
    LET removeStars(s) == SelectSeq(s, LAMBDA c : c # "*")
    IN  SelectSeq(filters, LAMBDA f : f.field = <<"name">> /\ removeStars(f.value) # <<>>)

\* [names, mode, indexRead, upstreamCalls]: the names of the results returned and what
\* was consulted for them.
handlePackageFilter(filter, limit, offset, names, index, registry, search) ==
    IF Len(names) > 0 THEN
        [names |-> slice(optimizedFilter(filter, index, registry), offset,
                         Add(offset, limit)),
         mode |-> "optimizer", indexRead |-> TRUE, upstreamCalls |-> 0]
    ELSE
        LET calls == searching(parseFilterExpressions(filter)) IN
        IF calls = <<>> THEN
            [names |-> <<>>, mode |-> "fallback", indexRead |-> TRUE, upstreamCalls |-> 0]
        ELSE IF search.kind = "objects" THEN
            [names |-> SelectSeq(search.names, LAMBDA n : matchesFilter(n, calls[1])),
             mode |-> "fallback", indexRead |-> TRUE, upstreamCalls |-> 1]
        ELSE IF search.kind = "throws" THEN
            \* catch: return []
            [names |-> <<>>, mode |-> "fallback", indexRead |-> TRUE, upstreamCalls |-> 1]
        ELSE
            \* no objects: the loop goes on to the next name predicate
            [names |-> <<>>, mode |-> "fallback", indexRead |-> TRUE,
             upstreamCalls |-> Len(calls)]

(***************************************************************************)
(* npm facade: GET /noderegistries/:registryId/packages                    *)
(***************************************************************************)
PackagesPath == <<"/noderegistries/npmjs.org/packages/">>

packageEntry(baseUrl, packageName) ==
    [name |-> packageName,
     xid |-> PackagesPath \o packageName,
     self |-> baseUrl \o PackagesPath \o encodeURIComponent(packageName)]

\* packages[packageName] = {...} for each result that has a name, in order: a name
\* met again overwrites its entry in place.
RECURSIVE packagesOf(_, _)
packagesOf(baseUrl, names) ==
    IF names = <<>> THEN <<>>
    ELSE LET rest == packagesOf(baseUrl, SubSeq(names, 1, Len(names) - 1))
             n == names[Len(names)]
         IN  IF n = <<>> \/ \E i \in 1..Len(rest) : rest[i].name = n THEN rest
             ELSE Append(rest, packageEntry(baseUrl, n))

isDesc(sort) ==
    LET sortParts == split(sort, <<"=">>) IN
    /\ Len(sortParts) = 2 /\ sortParts[1] # <<>> /\ sortParts[2] # <<>>
    /\ lower(sortParts[2]) = <<"desc">>

\* The sorted branch: the whole cache is sorted when the sort parameter has two parts,
\* then sliced from offset to Math.min(offset + limit, length).
sortedSlice(names, sort, limit, offset) ==
    LET sortParts == split(sort, <<"=">>)
        isSort == Len(sortParts) = 2 /\ sortParts[1] # <<>> /\ sortParts[2] # <<>>
        sortedCache == IF isSort THEN sortNames(names, isDesc(sort)) ELSE names
        e == Add(offset, limit)
        endIdx == IF e.nan THEN NaN ELSE Num(Min(e.n, Len(sortedCache)))
    IN  slice(sortedCache, offset, endIdx)

\* Variant: the full-page rule applied to filtered requests too.
shouldSetLinkFullPage(hasFilter, returnedCount, limit) ==
    ~limit.nan /\ returnedCount >= limit.n

\* const shouldSetLink = filter ? returnedCount > 0 : returnedCount >= limit

shouldSetLink(hasFilter, returnedCount, limit) ==
    IF hasFilter THEN returnedCount > 0
    ELSE ~limit.nan /\ returnedCount >= limit.n

NoLink == [present |-> FALSE, limit |-> NaN, offset |-> NaN, filter |-> Absent]

\* res.set('Link', `<${baseUrl}/noderegistries/npmjs.org/packages?limit=..&offset=..
\* [&filter=..]>; rel="next"`), by its query parameters.
linkHeader(req, returnedCount, limit, offset) ==
    IF shouldSetLink(Truthy(req.filter), returnedCount, limit) THEN
        [present |-> TRUE, limit |-> limit, offset |-> Add(offset, limit),
         filter |-> IF Truthy(req.filter) THEN Param(encodeURIComponent(req.filter.text))
                    ELSE Absent]
    ELSE NoLink

problem(status, mode) ==
    [status |-> status, packages |-> <<>>, link |-> NoLink, mode |-> mode,
     indexRead |-> FALSE, upstreamCalls |-> 0]

page(req, names, limit, offset, mode, indexRead, upstreamCalls) ==
    LET packages == packagesOf(req.baseUrl, names) IN
    [status |-> 200, packages |-> packages,
     link |-> linkHeader(req, Len(packages), limit, offset),
     mode |-> mode, indexRead |-> indexRead, upstreamCalls |-> upstreamCalls]

packagesHandler(req, names, index, registry, search) ==
    LET limit == intParam(req.limit, <<"2", "0">>)
        offset == intParam(req.offset, <<"0">>)
    IN  IF req.registryId # "npmjs.org" THEN problem(404, "notfound")
        ELSE IF ~limit.nan /\ limit.n <= 0 THEN problem(400, "invalid")
        ELSE IF Truthy(req.filter) THEN
            LET found == handlePackageFilter(req.filter.text, limit, offset, names, index,
                                             registry, search)
            IN  page(req, found.names, limit, offset, found.mode, found.indexRead,
                     found.upstreamCalls)
        ELSE IF Truthy(req.sort) /\ Len(names) > 0 THEN
            page(req, sortedSlice(names, req.sort.text, limit, offset), limit, offset,
                 "sorted", TRUE, 0)
        ELSE IF search.kind = "throws" THEN
            \* catch: res.status(500).json({ error: 'Failed to retrieve packages' })
            [problem(500, "default") EXCEPT !.indexRead = TRUE, !.upstreamCalls = 1]
        ELSE page(req, search.names, limit, offset, "default", TRUE, 1)

(***************************************************************************)
(* Inputs of the packages collection.                                      *)
(***************************************************************************)
MaxLimit == 2
MaxOffset == 2
MaxSearchResults == 3

NameA == <<"a">>
NameB == <<"b">>
NameScoped == <<"@", "s", "/", "c">>

\* Variant: the last name of names.json is not stored.
loadAllButLast(allPackageNames) ==
    sortNames(SubSeq(allPackageNames, 1, Len(allPackageNames) - 1), FALSE)

\* loadPackageNamesCache stores the names of names.json sorted.
loadPackageNamesCache(allPackageNames) == sortNames(allPackageNames, FALSE)

\* The FilterOptimizer after construction: a build of its indices is scheduled when
\* the name cache is not empty.  buildIndices fills the index from the name cache.
scheduleIndices(names) ==
    [indices |-> IF Len(names) > 0 THEN "scheduled" ELSE "none", names |-> <<>>]
buildIndices(names) == [indices |-> "built", names |-> names]
\* The FilterOptimizer once the scheduled build has run.
indicesOf(names) == IF Len(names) > 0 THEN buildIndices(names) ELSE scheduleIndices(names)

\* What the upstream search can answer: it throws, returns nothing, or lists a prefix
\* of the upstream's listing, in which a result may lack a name.
Searches ==
    LET UpstreamListing == <<NameA, NameB, NameScoped, <<"A">>, <<>>, NameA>>
    IN  {SearchThrows, SearchNull}
            \cup {SearchObjects(SubSeq(UpstreamListing, 1, k)) : k \in 0..MaxSearchResults}

BaseUrls == {<<"https://bridge">>}

ListingRequests ==
    LET LimitParams ==
            {Absent, Param(<<>>), Param(<<"x">>), Param(<<"-", "1">>)}
                \cup {Param(<<Digits[n + 1]>>) : n \in 0..MaxLimit}
        OffsetParams ==
            {Absent} \cup {Param(<<Digits[n + 1]>>) : n \in 1..MaxOffset}
                     \cup {Param(<<"-", Digits[n + 1]>>) : n \in 1..MaxOffset}
        FilterParams ==
            {Absent, Param(<<>>), Param(<<"name", "=", "a", "*">>),
             Param(<<"name", "!", "=", "a">>), Param(<<"name", "=", "c", "*">>),
             Param(<<"name", "=", "a", "*", "&", "name", "!", "=", "a">>),
             Param(<<"name", "=", ".", "*">>)}
        SortParams == {Absent, Param(<<"name", "=", "asc">>), Param(<<"name", "=", "DESC">>)}
    IN  {[registryId |-> "npmjs.org", baseUrl |-> b, limit |-> l, offset |-> o,
          filter |-> f, sort |-> s] :
            b \in BaseUrls, l \in LimitParams, o \in OffsetParams, f \in FilterParams,
            s \in SortParams}
        \cup {[registryId |-> "other", baseUrl |-> b, limit |-> l, offset |-> Absent,
               filter |-> Absent, sort |-> Absent] : b \in BaseUrls, l \in LimitParams}

\* GET /noderegistries/:registryId/packages is handled and answered.
PackagesCollection ==
    /\ listing.stage = "pending"
    /\ listing' = [listing EXCEPT
                     !.stage = "answered",
                     !.res = packagesHandler(listing.req, packageNamesCache,
                                             filterOptimizer.names, upstream,
                                             listing.search)]
    /\ UNCHANGED <<proxy, upstream, packageNamesCache, views, filterOptimizer, chain,
                   cacheLoadingPromise, flight, wrapper, server>>

InitListing ==
    /\ proxy = None
    /\ upstream = None
    \* names.json is missing (the cache stays empty) or holds one or three names
    /\ packageNamesCache \in {loadPackageNamesCache(f) :
                                f \in {<<>>, <<NameB>>, <<NameB, NameScoped, NameA>>}}
    /\ filterOptimizer = indicesOf(packageNamesCache)
    /\ views = None
    /\ listing \in {[stage |-> "pending", req |-> r, search |-> u,
                     res |-> problem(0, "pending")] :
                        r \in ListingRequests, u \in Searches}
    /\ chain = None
    /\ cacheLoadingPromise = None
    /\ flight = None
    /\ wrapper = None
    /\ server = None

SpecListing == InitListing /\ [][PackagesCollection]_vars

(***************************************************************************)
(* npm facade: filtered requests while the FilterOptimizer's indices are   *)
(* scheduled, built or failed to build.  The build runs from a timer two   *)
(* seconds after the name cache is loaded; requests are served meanwhile.  *)
(***************************************************************************)
\* The registry's document of each indexed package: the fetch fails, or it succeeds
\* with or without a license.
Registries ==
    LET Documents == {[ok |-> FALSE, license |-> Absent], [ok |-> TRUE, license |-> Absent],
                      [ok |-> TRUE, license |-> Param(<<"m">>)]}
    IN  [{NameA, NameB} -> Documents]

OptimizerRequests ==
    LET OptimizerFilters ==
            {Param(<<"name", "=", "a", "*">>), Param(<<"license", "!", "=", "x">>),
             Param(<<"name", "=", "*", "&", "license", "=", "m">>),
             Param(<<"name">>), Param(<<"=", "a">>)}
    IN  {[registryId |-> "npmjs.org", baseUrl |-> b, limit |-> l, offset |-> Absent,
          filter |-> f, sort |-> Absent] :
            b \in BaseUrls, l \in {Absent, Param(<<"1">>)}, f \in OptimizerFilters}
OptimizerSearches == {SearchThrows, SearchObjects(<<NameA, NameB>>)}

\* The timer fires and buildIndices returns.
BuildIndices ==
    /\ filterOptimizer.indices = "scheduled"
    /\ filterOptimizer' = buildIndices(packageNamesCache)
    /\ UNCHANGED <<proxy, upstream, packageNamesCache, views, listing, chain,
                   cacheLoadingPromise, flight, wrapper, server>>

\* The timer fires and buildIndices throws: the error is logged, nothing is built.
BuildIndicesFails ==
    /\ filterOptimizer.indices = "scheduled"
    /\ filterOptimizer' = [filterOptimizer EXCEPT !.indices = "failed"]
    /\ UNCHANGED <<proxy, upstream, packageNamesCache, views, listing, chain,
                   cacheLoadingPromise, flight, wrapper, server>>

\* A filtered request arrives and is answered.
FilteredRequest ==
    \E r \in OptimizerRequests, u \in OptimizerSearches :
        /\ listing' = [stage |-> "answered", req |-> r, search |-> u,
                       res |-> packagesHandler(r, packageNamesCache, filterOptimizer.names,
                                               upstream, u)]
        /\ UNCHANGED <<proxy, upstream, packageNamesCache, views, filterOptimizer, chain,
                       cacheLoadingPromise, flight, wrapper, server>>

InitOptimizer ==
    /\ proxy = None
    /\ upstream \in Registries
    /\ packageNamesCache \in {loadPackageNamesCache(f) : f \in {<<>>, <<NameB, NameA>>}}
    /\ filterOptimizer = scheduleIndices(packageNamesCache)
    /\ views = None
    /\ listing = [stage |-> "idle", req |-> None, search |-> SearchNull,
                  res |-> problem(0, "pending")]
    /\ chain = None
    /\ cacheLoadingPromise = None
    /\ flight = None
    /\ wrapper = None
    /\ server = None

SpecOptimizer == InitOptimizer /\ [][BuildIndices \/ BuildIndicesFails \/ FilteredRequest]_vars

(***************************************************************************)
(* npm facade: the package, meta, versions, version and version-meta       *)
(* routes.  A version id is a number n standing for the text "0.0.n";      *)
(* versions are numbered in the order of their publication, so n is also   *)
(* the version's entry in the upstream's time map.  upstream.versions is   *)
(* the order of the keys of the upstream's versions object.                *)
(***************************************************************************)
DefaultVersionsLimit == 100
MaxVersions == 2

NoLatest == 0
VersionText(v) == <<"0.0.", ToString(v)>>

NpmjsOrg == <<"npmjs.org">>
OtherRegistry == <<"other">>
packagePath(registryId, packageName) ==
    <<"/noderegistries/">> \o registryId \o <<"/packages/">> \o packageName
versionPath(registryId, packageName, version) ==
    packagePath(registryId, packageName) \o <<"/versions/">> \o VersionText(version)

\* NpmService.getPackageMetadata: the upstream's document, or null for a package the
\* upstream does not know.
getPackageMetadata(up) == IF up.kind = "found" THEN up ELSE None

\* NpmService.getVersionMetadata: the version's data, or null for a version the
\* upstream does not list.
getVersionMetadata(up, version) ==
    IF up.kind = "found" /\ \E i \in 1..Len(up.versions) : up.versions[i] = version
    THEN [versionid |-> VersionText(version)]
    ELSE None

indexOf(seq, x) ==
    IF \E i \in 1..Len(seq) : seq[i] = x
    THEN CHOOSE i \in 1..Len(seq) : seq[i] = x /\ \A j \in 1..(i - 1) : seq[j] # x
    ELSE 0

\* metadata['dist-tags']?.latest || Object.keys(metadata.versions || {})[0] || '0.0.0'
defaultVersion(metadata) ==
    IF metadata.latest # NoLatest THEN VersionText(metadata.latest)
    ELSE IF Len(metadata.versions) > 0 THEN VersionText(metadata.versions[1])
    ELSE <<"0.0.0">>

\* Instants: the upstream's time.created and time.modified of a package, and the
\* instant at which the facade first observed a path and seeded its entity state.
Created == 1
Modified == 2
Observed == 3

\* EntityStateManager.getCreatedAt and getModifiedAt: the pair seeded on the first
\* observation of the path, stable afterwards.
getCreatedAt(path) == Observed
getModifiedAt(path) == Observed

notFound(route) == [route |-> route, status |-> 404]
failed(route) == [route |-> route, status |-> 500]

\* GET .../packages/:packageName and GET .../packages/:packageName/meta
packageHandler(route, req, up) ==
    IF req.registryId # NpmjsOrg THEN notFound(route)
    ELSE IF up.kind = "unavailable" THEN failed(route)
    ELSE LET metadata == getPackageMetadata(up) IN
         IF metadata = None THEN notFound(route)
         ELSE [route |-> route, status |-> 200,
               xid |-> packagePath(req.registryId, req.packageName),
               self |-> req.baseUrl \o packagePath(req.registryId, req.packageName),
               createdat |-> IF Truthy(metadata.time.created) THEN metadata.time.created.text[1]
                             ELSE getCreatedAt(packagePath(req.registryId, req.packageName)),
               modifiedat |-> IF Truthy(metadata.time.modified) THEN metadata.time.modified.text[1]
                              ELSE getModifiedAt(packagePath(req.registryId, req.packageName)),
               versionid |-> defaultVersion(metadata),
               isdefault |-> TRUE,
               versionscount |-> Len(metadata.versions)]

\* versionIndex > 0 ? allVersions[versionIndex - 1] : version  (indices from 0 there)
ancestorOf(allVersions, version) ==
    LET versionIndex == indexOf(allVersions, version) IN
    IF versionIndex > 1 THEN allVersions[versionIndex - 1] ELSE version

\* GET .../versions/:version and GET .../versions/:version/meta
versionHandler(route, req, up, version) ==
    IF req.registryId # NpmjsOrg THEN notFound(route)
    ELSE IF up.kind = "unavailable" THEN failed(route)
    ELSE LET versionData == getVersionMetadata(up, version) IN
         IF versionData = None THEN notFound(route)
         ELSE LET packageMetadata == getPackageMetadata(up) IN
              [route |-> route, status |-> 200,
               xid |-> versionPath(req.registryId, req.packageName, version),
               self |-> req.baseUrl \o versionPath(req.registryId, req.packageName, version),
               versionid |-> versionData.versionid,
               isdefault |-> (packageMetadata.latest = version),
               ancestor |-> VersionText(ancestorOf(packageMetadata.versions, version))]

\* keys.sort((a, b) => a.localeCompare(b, undefined, {numeric: true, sensitivity: 'base'}))
\* on "0.0.a" and "0.0.b", reversed for desc.  The keys of an object are distinct, so the
\* place of a key in the sorted array is the number of keys that go before it.
sortVersions(keys, desc) ==
    LET versionBefore(a, b, d) == IF d THEN a > b ELSE a < b
        place == [j \in 1..Len(keys) |->
                    Cardinality({k \in 1..Len(keys) : versionBefore(keys[k], keys[j], desc)})]
    IN  [i \in 1..Len(keys) |-> keys[CHOOSE j \in 1..Len(keys) : place[j] = i - 1]]

versionEntry(req, versionId) ==
    [versionid |-> VersionText(versionId),
     xid |-> PackagesPath \o req.packageName \o <<"/versions/">> \o VersionText(versionId),
     self |-> req.baseUrl \o PackagesPath \o encodeURIComponent(req.packageName)
                \o <<"/versions/">> \o encodeURIComponent(VersionText(versionId))]

\* sortParts.length === 2 && sortParts[1] ? sortParts[1].toLowerCase() : 'asc'
versionsDesc(sort) ==
    /\ Truthy(sort)
    /\ LET sortParts == split(sort.text, <<"=">>) IN
       Len(sortParts) = 2 /\ sortParts[2] # <<>> /\ lower(sortParts[2]) = <<"desc">>

\* Object.keys(metadata.versions).slice(0, limit)
versionKeys(metadata, limit) == slice(metadata.versions, Num(0), limit)

\* GET .../packages/:packageName/versions
versionsHandler(req, up) ==
    LET limit == intParam(req.limit, <<"1", "0", "0">>) IN
    IF req.registryId # NpmjsOrg THEN notFound("versions")
    ELSE IF up.kind = "unavailable" THEN failed("versions")
    ELSE LET metadata == getPackageMetadata(up) IN
         IF metadata = None \/ ~metadata.hasVersions THEN notFound("versions")
         ELSE LET keys == sortVersions(versionKeys(metadata, limit), versionsDesc(req.sort))
              IN  [route |-> "versions", status |-> 200,
                   limit |-> req.limit, sort |-> req.sort,
                   versions |-> [i \in 1..Len(keys) |-> versionEntry(req, keys[i])]]

(***************************************************************************)
(* Inputs of the package routes, and the client that collects the views.   *)
(***************************************************************************)
VersionIds == 1..MaxVersions

\* The sequences without repetition over a set of version ids.
RECURSIVE Listings(_)
Listings(ids) ==
    IF ids = {} THEN {<<>>}
    ELSE {<<>>} \cup UNION {{<<v>> \o l : l \in Listings(ids \ {v})} : v \in ids}

\* The upstream's documents.  time.created and time.modified are instants, the first
\* not later than the second and both earlier than the facade's first look at the
\* package; either may be missing from the document.
Upstreams ==
    LET NoTimes == [created |-> Absent, modified |-> Absent]
        Times == {[created |-> c, modified |-> m] :
                    c \in {Absent, Param(<<Created>>)}, m \in {Absent, Param(<<Modified>>)}}
        Both == [created |-> Param(<<Created>>), modified |-> Param(<<Modified>>)]
    IN  {[kind |-> "found", hasVersions |-> TRUE, versions |-> l, latest |-> t, time |-> Both] :
            l \in Listings(VersionIds), t \in {NoLatest} \cup 1..(MaxVersions + 1)}
        \cup {[kind |-> "found", hasVersions |-> TRUE, versions |-> <<1>>, latest |-> 1,
               time |-> t] : t \in Times}
        \cup {[kind |-> "found", hasVersions |-> TRUE,
               versions |-> [i \in 1..(DefaultVersionsLimit + 1) |-> i],
               latest |-> DefaultVersionsLimit + 1, time |-> Both]}
        \cup {[kind |-> "found", hasVersions |-> FALSE, versions |-> <<>>, latest |-> NoLatest,
               time |-> Both]}
        \cup {[kind |-> k, hasVersions |-> FALSE, versions |-> <<>>, latest |-> NoLatest,
               time |-> NoTimes] : k \in {"missing", "unavailable"}}

NoViews(req) ==
    [req |-> req, package |-> None, versions |-> None,
     version |-> [v \in VersionIds |-> None]]

GetPackage ==
    /\ views' = [views EXCEPT !.package = packageHandler("package", views.req, upstream)]
    /\ UNCHANGED <<proxy, upstream, packageNamesCache, listing, filterOptimizer, chain,
                   cacheLoadingPromise, flight, wrapper, server>>

GetPackageMeta ==
    /\ views' = [views EXCEPT !.package = packageHandler("meta", views.req, upstream)]
    /\ UNCHANGED <<proxy, upstream, packageNamesCache, listing, filterOptimizer, chain,
                   cacheLoadingPromise, flight, wrapper, server>>

GetVersions ==
    \E l \in {Absent, Param(<<"1">>)}, s \in {Absent, Param(<<"versionid", "=", "desc">>)} :
        /\ views' = [views EXCEPT
                       !.versions = versionsHandler([views.req EXCEPT !.limit = l, !.sort = s],
                                                    upstream)]
        /\ UNCHANGED <<proxy, upstream, packageNamesCache, listing, filterOptimizer, chain,
                       cacheLoadingPromise, flight, wrapper, server>>

GetVersion ==
    \E v \in VersionIds :
        /\ views' = [views EXCEPT
                       !.version[v] = versionHandler("version", views.req, upstream, v)]
        /\ UNCHANGED <<proxy, upstream, packageNamesCache, listing, filterOptimizer, chain,
                       cacheLoadingPromise, flight, wrapper, server>>

GetVersionMeta ==
    \E v \in VersionIds :
        /\ views' = [views EXCEPT
                       !.version[v] = versionHandler("versionmeta", views.req, upstream, v)]
        /\ UNCHANGED <<proxy, upstream, packageNamesCache, listing, filterOptimizer, chain,
                       cacheLoadingPromise, flight, wrapper, server>>

InitPackage ==
    /\ proxy = None
    /\ upstream \in Upstreams
    /\ packageNamesCache = <<>>
    /\ views \in {NoViews([registryId |-> r, packageName |-> n, baseUrl |-> b,
                           limit |-> Absent, sort |-> Absent]) :
                    r \in {NpmjsOrg, OtherRegistry}, n \in {NameA, NameScoped},
                    b \in BaseUrls}
    /\ views.req.registryId = OtherRegistry => views.req.packageName = NameA
    /\ Len(upstream.versions) > MaxVersions =>
          views.req.packageName = NameA /\ views.req.registryId = NpmjsOrg
    /\ views.req.registryId = OtherRegistry =>
          upstream.kind = "found" /\ upstream.latest = NoLatest
    /\ listing = None
    /\ filterOptimizer = None
    /\ chain = None
    /\ cacheLoadingPromise = None
    /\ flight = None
    /\ wrapper = None
    /\ server = None

SpecPackage ==
    InitPackage /\ [][GetPackage \/ GetPackageMeta \/ GetVersions \/ GetVersion \/ GetVersionMeta]_vars

(***************************************************************************)
(* The middleware chains of the npm and the PyPI facades, in the order the *)
(* servers register them.  A middleware either answers or passes the       *)
(* request on (Pass).                                                      *)
(***************************************************************************)
NoBody == [keys |-> {}, instance |-> <<>>]
Pass == [status |-> 0, title |-> "", by |-> "next", body |-> NoBody]
answer(status, title, by, body) ==
    [status |-> status, title |-> title, by |-> by, body |-> body]

\* req.originalUrl: the path and the query string of the request as it arrived.
originalUrl(req) == <<req.path>> \o req.query

\* createProblemDetails(status, title, detail, instance) of the npm server, and the
\* object literals of the PyPI server: the keys of the body and its instance.
ProblemKeys == {"type", "title", "status", "detail", "instance"}
createProblemDetails(instance) == [keys |-> ProblemKeys, instance |-> instance]

Localhost == {"127.0.0.1", "::1"}

\* PyPI: the API-key middleware, registered only when an API key is configured.
apiKeyMiddleware(req, API_KEY) ==
    IF ~Truthy(API_KEY) THEN Pass
    ELSE IF req.method = "OPTIONS" THEN Pass
    ELSE IF req.path = "/model" /\ req.ip \in Localhost THEN Pass
    ELSE IF ~Truthy(req.authorization)
         THEN answer(401, "Authentication required", "apiKey",
                     createProblemDetails(originalUrl(req)))
    ELSE LET parts == split(req.authorization.text, <<" ">>)
             scheme == parts[1]
         IN  IF lower(scheme) # <<"bearer">>
             THEN answer(401, "Invalid authorization format", "apiKey",
                         createProblemDetails(originalUrl(req)))
             ELSE IF Len(parts) < 2 \/ parts[2] # API_KEY.text
                  THEN answer(401, "Invalid API key", "apiKey",
                              createProblemDetails(originalUrl(req)))
                  ELSE Pass

\* Variant: a catch-all that lets PATCH through.
WriteMethodsWithoutPatch == {"PUT", "POST", "DELETE"}

\* ['PUT', 'PATCH', 'POST', 'DELETE']
WriteMethods == {"PUT", "PATCH", "POST", "DELETE"}

\* npm: the catch-all registered after the routes and before the 404 handler.
methodNotAllowed(req) ==
    IF req.method \in WriteMethods
    THEN answer(405, "Method Not Allowed", "catchAll",
                createProblemDetails(originalUrl(req)))
    ELSE Pass

\* PyPI: the same catch-all; its body names req.path as the instance.
pypiMethodNotAllowed(req) ==
    IF req.method \in WriteMethods
    THEN answer(405, "Method Not Allowed", "catchAll", createProblemDetails(<<req.path>>))
    ELSE Pass

\* instance: req.originalUrl (npm), req.originalUrl || req.path (PyPI)
notFoundHandler(req) ==
    answer(404, "Not Found", "notFound", createProblemDetails(originalUrl(req)))

\* npm: every route is registered with app.get.
GetRoutes == {"/", "/health", "/model"}
routes(req) ==
    IF req.method = "GET" /\ req.path \in GetRoutes THEN answer(200, "", "route", NoBody)
    ELSE Pass

\* PyPI: app.get('/health'), app.get('/performance/stats') and the two routers mounted
\* at /, which serve the GET surface only.
pypiRoutes(req) ==
    IF req.method = "GET" /\ req.path \in GetRoutes THEN answer(200, "", "route", NoBody)
    ELSE Pass

\* The first answer of a chain of middleware results.
RECURSIVE firstAnswer(_)
firstAnswer(results) ==
    IF Head(results) # Pass \/ Len(results) = 1 THEN Head(results)
    ELSE firstAnswer(Tail(results))

pypiChain(req, API_KEY) ==
    firstAnswer(<<apiKeyMiddleware(req, API_KEY), pypiRoutes(req),
                  pypiMethodNotAllowed(req), notFoundHandler(req)>>)

\* npm: express.json() hands the error handlers a body it cannot parse; their answer is
\* an error status that is an input here (errorStatus), with the problem body the
\* error format prescribes.
bodyParser(req) ==
    IF req.bodyParses THEN Pass
    ELSE answer(req.errorStatus, "", "errorHandler",
                [keys |-> ProblemKeys \cup {"traceId", "correlationId"},
                 instance |-> originalUrl(req)])

\* The Content-Type the xRegistry format prescribes, and the version header's value.
SchemaContentType == "application/json; schema=https://xregistry.io/schemas/xregistry-v1.0-rc2.json"
XRegistryVersion == "1.0-rc2"

\* npm: the res.writeHead installed by the middleware registered after the body parser
\* and the CORS, logging and flags middleware.  It replaces a Content-Type that starts
\* with application/json and leaves every other header as it is.
writeHead(headers) ==
    IF headers.contentType \in {"application/json", "application/json; charset=utf-8"}
    THEN [headers EXCEPT !.contentType = SchemaContentType]
    ELSE headers

\* npm: the headers of an answer.  res.json declares application/json; charset=utf-8;
\* GET / alone calls res.set('xRegistry-Version', '1.0-rc2') before it.  A request whose
\* body cannot be parsed skips the middleware that installs writeHead: its headers are
\* those of the error handlers, which follow the error format.
headersOf(req, res) ==
    IF res.by = "errorHandler"
    THEN [contentType |-> SchemaContentType, xRegistryVersion |-> XRegistryVersion]
    ELSE writeHead([contentType |-> "application/json; charset=utf-8",
                    xRegistryVersion |-> IF res.by = "route" /\ req.path = "/"
                                         THEN XRegistryVersion ELSE ""])

npmChain(req) ==
    LET res == firstAnswer(<<bodyParser(req), routes(req), methodNotAllowed(req),
                             notFoundHandler(req)>>)
    IN  [status |-> res.status, title |-> res.title, by |-> res.by, body |-> res.body,
         headers |-> headersOf(req, res)]

Methods == {"GET", "OPTIONS", "PUT", "PATCH", "POST", "DELETE"}
Paths == {"/", "/health", "/model", "/nowhere"}
Queries == {<<>>, <<"?", "q">>}

\* Requests to the PyPI facade, from the loopback address or another one, with no
\* Authorization header, the configured key "k", another scheme or spelling, a wrong
\* key, or the key followed by more text.
PypiRequests ==
    LET Authorizations ==
            {Absent, Param(<<"Bearer", " ", "k">>), Param(<<"bearer", " ", "k">>),
             Param(<<"Bearer", " ", "w">>), Param(<<"Basic", " ", "k">>), Param(<<"Bearer">>),
             Param(<<"Bearer", " ", "k", " ", "x">>)}
    IN  {[method |-> m, path |-> p, query |-> q, ip |-> i, authorization |-> a,
          bodyParses |-> TRUE, errorStatus |-> 400] :
            m \in Methods, p \in Paths, q \in Queries, i \in {"127.0.0.1", "10.0.0.1"},
            a \in Authorizations}

NpmRequests ==
    {[method |-> m, path |-> p, query |-> q, ip |-> "10.0.0.1", authorization |-> Absent,
      bodyParses |-> b, errorStatus |-> e] :
        m \in Methods, p \in Paths, q \in Queries, b \in BOOLEAN, e \in {400, 500}}

PypiRequest ==
    /\ chain.server = "pypi"
    /\ chain.stage = "received"
    /\ chain' = [chain EXCEPT !.stage = "answered",
                              !.res = pypiChain(chain.req, chain.apiKey)]
    /\ UNCHANGED <<proxy, upstream, packageNamesCache, views, listing, filterOptimizer,
                   cacheLoadingPromise, flight, wrapper, server>>

NpmRequest ==
    /\ chain.server = "npm"
    /\ chain.stage = "received"
    /\ chain' = [chain EXCEPT !.stage = "answered", !.res = npmChain(chain.req)]
    /\ UNCHANGED <<proxy, upstream, packageNamesCache, views, listing, filterOptimizer,
                   cacheLoadingPromise, flight, wrapper, server>>

InitChain ==
    /\ proxy = None
    /\ upstream = None
    /\ packageNamesCache = <<>>
    /\ views = None
    /\ listing = None
    /\ filterOptimizer = None
    /\ chain \in {[server |-> "pypi", stage |-> "received", req |-> r, apiKey |-> k,
                   res |-> Pass] : r \in PypiRequests, k \in {Absent, Param(<<"k">>)}}
                 \cup {[server |-> "npm", stage |-> "received", req |-> r,
                        apiKey |-> Absent, res |-> Pass] : r \in NpmRequests}
    /\ cacheLoadingPromise = None
    /\ flight = None
    /\ wrapper = None
    /\ server = None

SpecChain == InitChain /\ [][PypiRequest \/ NpmRequest]_vars

(***************************************************************************)
(* Claims about the bridge (SpecProxy).                                    *)
(***************************************************************************)
\* Every value stored under a key named xid, at any depth, is the same in b as in a;
\* a and b have the same shape.
RECURSIVE XidsPreserved(_, _)
XidsPreserved(a, b) ==
    /\ a.t = b.t
    /\ Len(a.items) = Len(b.items)
    /\ Len(a.fields) = Len(b.fields)
    /\ \A i \in 1..Len(a.items) : XidsPreserved(a.items[i], b.items[i])
    /\ \A i \in 1..Len(a.fields) :
        /\ a.fields[i].k = b.fields[i].k
        /\ a.fields[i].k = "xid" => a.fields[i].v = b.fields[i].v
        /\ XidsPreserved(a.fields[i].v, b.fields[i].v)

Rewrote == proxy.stage \in {"once", "again"} /\ proxy.out.path = "rewritten"

\* C1: in every JSON body the proxy rewrites, every value stored under a key named
\* xid, at any nesting depth and whatever its JSON type, is the same in the emitted
\* body as in the body received from the facade.
C1_XidUntouched == Rewrote => XidsPreserved(proxy.up.body.doc, proxy.out.body.doc)

\* C3: rewriting is idempotent: handing an already rewritten body and Link header to
\* the rewriter again (same downstream URL, same bridge base URL) changes neither.
C3_RewriteIdempotent ==
    (proxy.stage = "again" /\ proxy.out.path = "rewritten") =>
        /\ proxy.out.body.doc = proxy.up.body.doc
        /\ proxy.out.headers.link = proxy.up.headers.link

(***************************************************************************)
(* Claims about the packages collection (SpecListing).                     *)
(***************************************************************************)
Answered == listing.stage = "answered"
Limit == intParam(listing.req.limit, <<"2", "0">>)
ReturnedCount == Len(listing.res.packages)

\* C5: every 200 response of the packages collection holds at most limit entries
\* (limit >= 1, any offset), in all serving modes, whatever the upstream search returns.
C5_AtMostLimit ==
    (Answered /\ listing.res.status = 200 /\ ~Limit.nan /\ Limit.n >= 1) =>
        ReturnedCount <= Limit.n

\* C6: a packages response carries a rel="next" Link when the request has a filter and
\* the page is not empty, or has no filter and the page holds limit entries; a filtered
\* request whose page is empty carries no Link.
C6_NextLink ==
    (Answered /\ listing.res.status = 200) =>
        /\ (Truthy(listing.req.filter) /\ ReturnedCount > 0) => listing.res.link.present
        /\ (~Truthy(listing.req.filter) /\ ~Limit.nan /\ ReturnedCount = Limit.n)
                => listing.res.link.present
        /\ (Truthy(listing.req.filter) /\ ReturnedCount = 0) => ~listing.res.link.present

\* A filtered request answered with a page that is not empty and not full, and a
\* filtered request answered with an empty page.
C6_Witness ==
    /\ Answered /\ listing.res.status = 200 /\ Truthy(listing.req.filter)
    /\ ReturnedCount > 0 /\ ~Limit.nan /\ ReturnedCount < Limit.n
    /\ listing.res.link.present

InvalidLimit ==
    /\ Truthy(listing.req.limit)
    /\ Limit.nan \/ Limit.n <= 0

\* The limit and the offset the next link of an answered request was computed from.
DefaultsApplied ==
    (Answered /\ listing.res.status = 200 /\ listing.res.link.present) =>
        /\ ~Truthy(listing.req.limit) => listing.res.link.limit = Num(20)
        /\ (~Truthy(listing.req.offset) /\ ~Limit.nan) => listing.res.link.offset = Limit

\* C7: a request whose limit is invalid (zero, negative, not a number) is rejected with
\* 400 before any name-index read or upstream call; an absent limit is 20, an absent
\* offset 0.
C7_InvalidLimitRejected ==
    /\ (Answered /\ listing.req.registryId = "npmjs.org" /\ InvalidLimit) =>
        /\ listing.res.status = 400
        /\ ~listing.res.indexRead
        /\ listing.res.upstreamCalls = 0
    /\ DefaultsApplied

\* The pattern matches the whole value: * stands for any sequence of characters, every
\* other character for itself, letter case ignored.
RECURSIVE WildcardMatch(_, _)
WildcardMatch(pattern, value) ==
    IF pattern = <<>> THEN value = <<>>
    ELSE IF Head(pattern) = "*" THEN
        \/ WildcardMatch(Tail(pattern), value)
        \/ value # <<>> /\ WildcardMatch(pattern, Tail(value))
    ELSE /\ value # <<>>
         /\ toLowerCase(Head(pattern)) = toLowerCase(Head(value))
         /\ WildcardMatch(Tail(pattern), Tail(value))

Satisfies(name, predicate) ==
    IF predicate.operator = "=" THEN WildcardMatch(predicate.value, name)
    ELSE ~WildcardMatch(predicate.value, name)

\* C13: every package returned for a filter= query satisfies every name predicate of
\* the filter (AND), = and != comparing case-insensitively, * standing for any sequence
\* and every other character for itself, in the optimizer and in the fallback path.
C13_FilterSatisfied ==
    (Answered /\ listing.res.status = 200 /\ Truthy(listing.req.filter))
        => LET predicates == parseFilterExpressions(listing.req.filter.text) IN
           \A i \in 1..Len(listing.res.packages) : \A j \in 1..Len(predicates) :
                predicates[j].field = <<"name">>
                    => Satisfies(listing.res.packages[i].name, predicates[j])

(***************************************************************************)
(* Claims about the package routes (SpecPackage).                          *)
(***************************************************************************)
Viewed(view) == view # None /\ view.status = 200

ViewedVersions == {v \in VersionIds : Viewed(views.version[v])}

\* C8: the versionscount of the package resource and of its meta view is the number of
\* entries of the map the versions endpoint returns for a request without a limit,
\* however many versions the upstream lists.
C8_VersionsCount ==
    (Viewed(views.package) /\ Viewed(views.versions) /\ views.versions.limit = Absent)
        => views.package.versionscount = Len(views.versions.versions)

\* The version published immediately before v: versions are numbered by publication.
Published == {upstream.versions[i] : i \in 1..Len(upstream.versions)}

Predecessor(v) ==
    IF \E w \in Published : w < v
    THEN CHOOSE w \in Published : w < v /\ \A x \in Published : x < v => x <= w
    ELSE v

\* C9: the ancestor of a version view is the version published immediately before it,
\* and the version itself when it is the oldest, whatever the order of the upstream's
\* listing.
C9_Ancestor ==
    \A v \in ViewedVersions : views.version[v].ancestor = VersionText(Predecessor(v))

\* C10: once every version of a package with at least one version has been viewed,
\* exactly one version view has isdefault = true, and its versionid is the versionid of
\* the package resource.
C10_OneDefault ==
    (/\ Viewed(views.package)
     /\ Published # {}
     /\ Published \subseteq ViewedVersions)
        => /\ Cardinality({v \in ViewedVersions : views.version[v].isdefault}) = 1
           /\ \A v \in ViewedVersions :
                views.version[v].isdefault
                    => views.version[v].versionid = views.package.versionid

\* The entities of the package routes seen so far that carry an xid and a self.
Entities ==
    (IF Viewed(views.package) THEN {[xid |-> views.package.xid, self |-> views.package.self]}
     ELSE {})
    \cup {[xid |-> views.version[v].xid, self |-> views.version[v].self] :
            v \in ViewedVersions}
    \cup (IF Viewed(views.versions)
          THEN {[xid |-> views.versions.versions[i].xid,
                 self |-> views.versions.versions[i].self] :
                    i \in 1..Len(views.versions.versions)}
          ELSE {})

\* C2: every entity that carries an xid and a self has self = baseUrl followed by xid,
\* also for names that need URL-encoding.
C2_SelfIsBasePlusXid ==
    \A e \in Entities : e.self = views.req.baseUrl \o e.xid

\* The views of the package routes received so far.
Received ==
    {v \in {views.package, views.versions} \cup {views.version[i] : i \in VersionIds} :
        v # None}

\* C17: when the upstream registry is unavailable, a package, meta, versions or version
\* request is answered 502, neither 500 nor 200.
C17_Unavailable502 ==
    upstream.kind = "unavailable" => \A v \in Received : v.status = 502

(***************************************************************************)
(* Claims about the middleware chains (SpecChain).                         *)
(***************************************************************************)
ChainAnswered == chain.stage = "answered"
IsWrite == chain.req.method \in {"PUT", "POST", "PATCH", "DELETE"}

\* The request carries what the PyPI API-key check asks for.
Authorized ==
    \/ ~Truthy(chain.apiKey)
    \/ chain.req.path = "/model" /\ chain.req.ip \in Localhost
    \/ /\ Truthy(chain.req.authorization)
       /\ LET parts == split(chain.req.authorization.text, <<" ">>)
          IN  /\ Len(parts) >= 2
              /\ parts[1] \in {<<"Bearer">>, <<"bearer">>}
              /\ parts[2] = chain.apiKey.text

\* C4 as written: every PUT, POST, PATCH or DELETE request to the npm or the PyPI facade
\* is answered 405 "Method Not Allowed"; no earlier middleware answers differently.
C4_EveryWriteIs405 ==
    (ChainAnswered /\ IsWrite)
        => chain.res.status = 405 /\ chain.res.title = "Method Not Allowed"

\* C4: a PUT, POST, PATCH or DELETE request is answered 405 "Method Not Allowed" when
\* it passes the API-key check (PyPI) and the body parser accepts its body (npm); a
\* request to PyPI that fails the API-key check is answered 401 whatever its method.
C4_WriteIs405 ==
    (ChainAnswered /\ IsWrite)
        => /\ (chain.server = "pypi" /\ ~Authorized) => chain.res.status = 401
           /\ (chain.server = "pypi" /\ Authorized) \/ (chain.server = "npm" /\ chain.req.bodyParses)
                => chain.res.status = 405 /\ chain.res.title = "Method Not Allowed"

C4_Witness ==
    /\ ChainAnswered
    /\ chain.server = "pypi"
    /\ chain.req.method = "PATCH"
    /\ Truthy(chain.apiKey)
    /\ chain.req.path = "/nowhere"
    /\ Authorized
    /\ chain.res.status = 405

\* C11: for a package whose upstream document has zero versions the package resource
\* reports versionscount = 0 and carries no versionid (the attribute is absent, written
\* here as the empty text), and the versions endpoint answers 200 with the empty object.
C11_ZeroVersions ==
    (upstream.kind = "found" /\ Published = {} /\ views.req.registryId = NpmjsOrg)
        => /\ views.package # None
                => /\ views.package.status = 200
                   /\ views.package.versionscount = 0
                   /\ views.package.versionid = <<>>
           /\ views.versions # None
                => views.versions.status = 200 /\ views.versions.versions = <<>>

\* The version that has i - 1 versions before it in the requested direction.
NthVersion(i, desc) ==
    CHOOSE v \in Published :
        Cardinality({w \in Published : IF desc THEN w > v ELSE w < v}) = i - 1

\* C12: a collection request that carries sort=<field>=<asc|desc> is answered with the
\* first limit elements of the entire candidate set sorted in the requested direction
\* (the versions list has no offset): sorting comes before truncation.
C12_SortBeforeSlice ==
    (Viewed(views.versions) /\ Truthy(views.versions.sort))
        => LET limit == intParam(views.versions.limit, <<"1", "0", "0">>)
               desc == views.versions.sort.text = <<"versionid", "=", "desc">>
               count == Min(limit.n, Cardinality(Published))
           IN  /\ Len(views.versions.versions) = count
               /\ \A i \in 1..count :
                    views.versions.versions[i].versionid = VersionText(NthVersion(i, desc))

(***************************************************************************)
(* Claims about filtering and the index build (SpecOptimizer).             *)
(***************************************************************************)
\* C14: whenever the FilterOptimizer's indices have not been built (the build is still
\* scheduled, or it failed), a filtered packages request is answered through the
\* upstream-search fallback and never through the optimizer.
C14_FallbackUntilBuilt ==
    [][(filterOptimizer.indices # "built" /\ listing' # listing)
            => listing'.res.mode = "fallback"]_vars

\* C15: a candidate whose metadata fetch failed never appears in the page returned for
\* a filter that has a predicate on a field other than name.
C15_FailedFetchDropped ==
    (listing.stage = "answered" /\ listing.res.status = 200
        /\ \E i \in 1..Len(parseFilterExpressions(listing.req.filter.text)) :
                parseFilterExpressions(listing.req.filter.text)[i].field # <<"name">>)
        => \A i \in 1..Len(listing.res.packages) :
                upstream[listing.res.packages[i].name].ok

\* A predicate without a comparator, or with an empty field or an empty value.
MalformedPredicate(part) ==
    LET comparator == IF includes(part, <<"!", "=">>) THEN <<"!", "=">> ELSE <<"=">>
        pieces == split(part, comparator)
    IN  \/ Len(pieces) < 2
        \/ trim(pieces[1]) = <<>>
        \/ trim(pieces[2]) = <<>>

MalformedFilter(filter) ==
    \E i \in 1..Len(split(filter, <<"&">>)) : MalformedPredicate(split(filter, <<"&">>)[i])

\* C16: a request with a malformed filter expression is answered 400 with a problem
\* body, never 200.
C16_MalformedFilterRejected ==
    (listing.stage = "answered" /\ MalformedFilter(listing.req.filter.text))
        => listing.res.status = 400

\* C18: every error response (status >= 400) has a problem body with type, title, status
\* and an instance equal to the original request URL, query string included, and
\* carries traceId and correlationId.
C18_ProblemBody ==
    (ChainAnswered /\ chain.res.status >= 400)
        => /\ {"type", "title", "status", "instance", "traceId", "correlationId"}
                \subseteq chain.res.body.keys
           /\ chain.res.body.instance = originalUrl(chain.req)

(***************************************************************************)
(* Claims about the bridge's fallback and its CORS headers (SpecProxy).    *)
(***************************************************************************)
\* The bytes of a body, chunk after chunk.
RECURSIVE Bytes(_)
Bytes(chunks) == IF chunks = <<>> THEN <<>> ELSE Head(chunks) \o Bytes(Tail(chunks))

\* C19: when the body of an upstream response declared as JSON cannot be parsed, the
\* client receives exactly the bytes the upstream sent, with the upstream's status.
C19_OriginalBodyDelivered ==
    (proxy.stage \in {"once", "again"} /\ proxy.out.path = "fallback")
        => /\ Bytes(proxy.out.body.chunks) = Bytes(proxy.up.body.chunks)
           /\ proxy.out.status = proxy.up.status

\* C20: every response the proxy sends carries Access-Control-Allow-Origin: *, an
\* allow-headers list with Authorization, X-Base-Url, X-Correlation-Id and X-Trace-Id,
\* and an expose-headers list with Link, ETag and Location, whatever CORS headers the
\* upstream response carried.
C20_PermissiveCors ==
    proxy.stage \in {"once", "again"}
        => /\ proxy.out.headers.acao = "*"
           /\ {"Authorization", "X-Base-Url", "X-Correlation-Id", "X-Trace-Id"}
                \subseteq proxy.out.headers.acah
           /\ {"Link", "ETag", "Location"} \subseteq proxy.out.headers.aceh

(***************************************************************************)
(* Claims about the PyPI API key (SpecChain).                              *)
(***************************************************************************)
\* The request is exempt from the API-key check.
Exempt == chain.req.method = "OPTIONS" \/ (chain.req.path = "/model" /\ chain.req.ip \in Localhost)

\* The Authorization header is the scheme Bearer, in either spelling, one space and
\* exactly the configured key.
BearerKey ==
    /\ Truthy(chain.req.authorization)
    /\ \E scheme \in {"Bearer", "bearer"} :
         chain.req.authorization.text = <<scheme, " ">> \o chain.apiKey.text

\* C21: with an API key configured, a request to the PyPI facade that is neither an
\* OPTIONS request nor a request for /model from a loopback address is answered 401 by
\* the API-key check unless its Authorization header is Bearer and exactly the
\* configured key; exempt requests and requests with the key proceed to routing.
C21_ApiKeyRequired ==
    (ChainAnswered /\ chain.server = "pypi" /\ Truthy(chain.apiKey))
        => IF Exempt \/ BearerKey
           THEN chain.res.by # "apiKey"
           ELSE chain.res.status = 401 /\ chain.res.by = "apiKey"

(***************************************************************************)
(* Claims about the headers of the npm facade (SpecChain).                 *)
(***************************************************************************)
\* C22: every JSON response of the npm facade, on every route and for every status,
\* declares Content-Type application/json; schema=<the xRegistry 1.0-rc2 schema> and
\* carries the header xRegistry-Version: 1.0-rc2.
C22_SchemaAndVersion ==
    (ChainAnswered /\ chain.server = "npm")
        => /\ chain.res.headers.contentType = SchemaContentType
           /\ chain.res.headers.xRegistryVersion = XRegistryVersion

(***************************************************************************)
(* Claims about the timestamps of the npm facade (SpecPackage).            *)
(***************************************************************************)
\* C23: in every package and package-meta entity the facade returns, createdat is not
\* later than modifiedat, whichever of the upstream's time.created and time.modified
\* are present.
C23_CreatedBeforeModified ==
    (views.package # None /\ views.package.status = 200)
        => views.package.createdat <= views.package.modifiedat

(***************************************************************************)
(* npm facade: concurrent requests for one package whose metadata is not   *)
(* cached.  The cache manager coalesces the misses on one key into one     *)
(* upstream request; the NpmService has a cache manager only when the      *)
(* server was constructed with cacheEnabled.                               *)
(***************************************************************************)
MaxRequests == 3

\* initializeServices: new NpmService({registryUrl, cacheManager, cacheTtl}) when
\* options.cacheEnabled, new NpmService({registryUrl, cacheTtl}) otherwise.
npmServiceOf(options) == [cacheManager |-> options.cacheEnabled]

\* A request for the package reaches npmService.getPackageMetadata.  With a cache
\* manager it is answered from the cache, joins the request in flight for the key, or
\* starts one; without a cache manager it fetches from the upstream itself.
PackageRequested ==
    \E i \in 1..MaxRequests :
        /\ flight.requests[i] = "idle"
        /\ flight' =
             IF flight.npmService.cacheManager /\ flight.cached
             THEN [flight EXCEPT !.requests[i] = "ok"]
             ELSE IF flight.npmService.cacheManager /\ flight.fetches # {}
             THEN [flight EXCEPT !.requests[i] = "pending",
                                 !.fetches = {f \cup {i} : f \in flight.fetches}]
             ELSE [flight EXCEPT !.requests[i] = "pending",
                                 !.fetches = flight.fetches \cup {{i}},
                                 !.upstreamRequests = flight.upstreamRequests + 1]
        /\ UNCHANGED <<proxy, upstream, packageNamesCache, views, listing, filterOptimizer,
                       chain, cacheLoadingPromise, wrapper, server>>

\* The upstream answers one of the requests in flight, with the document or with an
\* error; the requests waiting for it are answered, and a document is cached.
UpstreamAnswers ==
    \E f \in flight.fetches, ok \in BOOLEAN :
        /\ flight' = [flight EXCEPT
                        !.requests = [i \in 1..MaxRequests |->
                                        IF i \in f THEN (IF ok THEN "ok" ELSE "error")
                                        ELSE flight.requests[i]],
                        !.fetches = flight.fetches \ {f},
                        !.cached = flight.cached \/ (flight.npmService.cacheManager /\ ok)]
        /\ UNCHANGED <<proxy, upstream, packageNamesCache, views, listing, filterOptimizer,
                       chain, cacheLoadingPromise, wrapper, server>>

InitFlight ==
    /\ proxy = None
    /\ upstream = None
    /\ packageNamesCache = <<>>
    /\ views = None
    /\ listing = None
    /\ filterOptimizer = None
    /\ chain = None
    /\ cacheLoadingPromise = None
    /\ flight \in {[npmService |-> npmServiceOf([cacheEnabled |-> c]),
                    requests |-> [i \in 1..MaxRequests |-> "idle"],
                    fetches |-> {}, cached |-> FALSE, upstreamRequests |-> 0] :
                        c \in BOOLEAN}
    /\ wrapper = None
    /\ server = None

SpecFlight == InitFlight /\ [][PackageRequested \/ UpstreamAnswers]_vars

\* C24: when all the requests for the package arrive before the upstream has answered
\* any of them, the upstream has received exactly one request for the metadata, in
\* every configuration of the server.
C24_SingleFlight ==
    (\A i \in 1..MaxRequests : flight.requests[i] = "pending")
        => flight.upstreamRequests = 1 /\ flight.fetches = {1..MaxRequests}

(***************************************************************************)
(* restart-wrapper.sh: the loop that runs the server of a facade.  Time is *)
(* in seconds, as date +%s gives it.                                       *)
(***************************************************************************)
MAX_RAPID_RESTARTS == 5
RESTART_WINDOW == 300
MaxStarts == 7

\* The loop that keeps the restart times inside the window:
\* [ $((current_time - restart_time)) -lt $RESTART_WINDOW ]
cleanRestartTimes(RESTART_TIMES, current_time) ==
    SelectSeq(RESTART_TIMES, LAMBDA restart_time : current_time - restart_time < RESTART_WINDOW)

\* The top of the loop up to the start of the server: the restart times are cleaned,
\* the wrapper sleeps 60 seconds and forgets them when MAX_RAPID_RESTARTS are left, and
\* the server is started.
StartServer ==
    /\ wrapper.pc = "top"
    /\ wrapper.RESTART_COUNT < MaxStarts
    /\ LET current_time == wrapper.now
           kept == cleanRestartTimes(wrapper.RESTART_TIMES, current_time)
           tooRapid == Len(kept) >= MAX_RAPID_RESTARTS
           started == IF tooRapid THEN wrapper.now + 60 ELSE wrapper.now
       IN  wrapper' = [wrapper EXCEPT
                         !.pc = "running",
                         !.current_time = current_time,
                         !.RESTART_TIMES = IF tooRapid THEN <<>> ELSE kept,
                         !.RESTART_COUNT = wrapper.RESTART_COUNT + 1,
                         !.now = started,
                         !.starts = Append(wrapper.starts, started),
                         !.waited = tooRapid]
    /\ UNCHANGED <<proxy, upstream, packageNamesCache, views, listing, filterOptimizer,
                   chain, cacheLoadingPromise, flight, server>>

\* node ... 2>&1 | tee -a "$LOG_FILE" ends: the server has exited with its code after
\* running for a while, and tee with its own status, 0 unless it could not write the
\* log.  EXIT_CODE=$? is the status of the pipeline, that of its last command.  The
\* wrapper records current_time, and stops on EXIT_CODE 0 or sleeps 5 seconds and
\* goes round again.
ServerExits ==
    \E code \in {0, 1}, teeStatus \in {0, 1}, ran \in {0, 300} :
        /\ wrapper.pc = "running"
        /\ LET EXIT_CODE == teeStatus
           IN  wrapper' = [wrapper EXCEPT
                             !.pc = IF EXIT_CODE = 0 THEN "stopped" ELSE "top",
                             !.exited = Param(<<code>>),
                             !.EXIT_CODE = EXIT_CODE,
                             !.RESTART_TIMES = Append(wrapper.RESTART_TIMES,
                                                      wrapper.current_time),
                             !.now = wrapper.now + ran + (IF EXIT_CODE = 0 THEN 0 ELSE 5)]
        /\ UNCHANGED <<proxy, upstream, packageNamesCache, views, listing, filterOptimizer,
                       chain, cacheLoadingPromise, flight, server>>

InitWrapper ==
    /\ proxy = None
    /\ upstream = None
    /\ packageNamesCache = <<>>
    /\ views = None
    /\ listing = None
    /\ filterOptimizer = None
    /\ chain = None
    /\ cacheLoadingPromise = None
    /\ flight = None
    /\ wrapper = [pc |-> "top", now |-> 0, current_time |-> 0, RESTART_COUNT |-> 0,
                  RESTART_TIMES |-> <<>>, EXIT_CODE |-> 0, exited |-> Absent,
                  starts |-> <<>>, waited |-> FALSE]
    /\ server = None

SpecWrapper == InitWrapper /\ [][StartServer \/ ServerExits]_vars

(***************************************************************************)
(* Claims about the restart wrapper (SpecWrapper).                         *)
(***************************************************************************)
\* C25: the wrapper restarts the server when the server process has exited with a
\* non-zero code and stops when it has exited with code 0.
C25_RestartOnFailure ==
    (wrapper.exited.present /\ wrapper.pc # "running")
        => (wrapper.pc = "stopped") = (wrapper.exited.text = <<0>>)

\* C26: the wrapper starts the server at most MAX_RAPID_RESTARTS times within any
\* window of RESTART_WINDOW seconds, whatever the sequence of crashes.
C26_RestartLimit ==
    \A i \in 1..Len(wrapper.starts) :
        i + MAX_RAPID_RESTARTS <= Len(wrapper.starts)
            => wrapper.starts[i + MAX_RAPID_RESTARTS] - wrapper.starts[i] >= RESTART_WINDOW

(***************************************************************************)
(* npm and PyPI facade: the HTTP server between SIGINT or SIGTERM and the  *)
(* exit of the process.  A connection is idle or has a request in          *)
(* progress; server.close() stops listening, closes the idle connections   *)
(* and calls back once no connection is left.                              *)
(***************************************************************************)
MaxConnections == 2
MaxSignals == 2
MaxClock == 20

\* A client connects.
Connect ==
    /\ ~server.exited /\ ~server.closing
    /\ server.idle + server.active < MaxConnections
    /\ server' = [server EXCEPT !.idle = server.idle + 1]
    /\ UNCHANGED <<proxy, upstream, packageNamesCache, views, listing, filterOptimizer,
                   chain, cacheLoadingPromise, flight, wrapper>>

\* A request arrives on an idle connection.
RequestBegins ==
    /\ ~server.exited /\ server.idle > 0
    /\ server' = [server EXCEPT !.idle = server.idle - 1, !.active = server.active + 1]
    /\ UNCHANGED <<proxy, upstream, packageNamesCache, views, listing, filterOptimizer,
                   chain, cacheLoadingPromise, flight, wrapper>>

\* A request is answered: its connection is idle again, or is closed when the server is
\* closing.
RequestEnds ==
    /\ ~server.exited /\ server.active > 0
    /\ server' = [server EXCEPT !.active = server.active - 1,
                                !.idle = IF server.closing THEN server.idle ELSE server.idle + 1]
    /\ UNCHANGED <<proxy, upstream, packageNamesCache, views, listing, filterOptimizer,
                   chain, cacheLoadingPromise, flight, wrapper>>

\* process.on('SIGTERM' / 'SIGINT').  npm: shutdown awaits stop(), which calls
\* server.close(callback).  PyPI: shutdown calls server.close(callback) and sets a
\* timer of ten seconds.
shutdown ==
    \E signal \in {"SIGTERM", "SIGINT"} :
        /\ ~server.exited /\ server.signals < MaxSignals
        /\ server.now + 10 <= MaxClock
        /\ server' = [server EXCEPT
                        !.signals = server.signals + 1,
                        !.signal = signal,
                        !.closing = TRUE,
                        !.idle = 0,
                        !.timers = IF server.facade = "pypi"
                                   THEN server.timers \cup {server.now + 10}
                                   ELSE server.timers]
        /\ UNCHANGED <<proxy, upstream, packageNamesCache, views, listing, filterOptimizer,
                       chain, cacheLoadingPromise, flight, wrapper>>

\* Five seconds pass while the closing server waits for its connections.
Tick ==
    /\ ~server.exited /\ server.closing
    /\ server.active > 0
    /\ server.now < MaxClock
    /\ server' = [server EXCEPT !.now = server.now + 5]
    /\ UNCHANGED <<proxy, upstream, packageNamesCache, views, listing, filterOptimizer,
                   chain, cacheLoadingPromise, flight, wrapper>>

\* The callback of server.close runs: process.exit(0).
Closed ==
    /\ ~server.exited /\ server.closing
    /\ server.idle = 0 /\ server.active = 0
    /\ server' = [server EXCEPT !.exited = TRUE, !.code = 0]
    /\ UNCHANGED <<proxy, upstream, packageNamesCache, views, listing, filterOptimizer,
                   chain, cacheLoadingPromise, flight, wrapper>>

\* PyPI: a timer fires: process.exit(1).
ForcedShutdown ==
    /\ ~server.exited
    /\ \E deadline \in server.timers : deadline <= server.now
    /\ server' = [server EXCEPT !.exited = TRUE, !.code = 1]
    /\ UNCHANGED <<proxy, upstream, packageNamesCache, views, listing, filterOptimizer,
                   chain, cacheLoadingPromise, flight, wrapper>>

InitShutdown ==
    /\ proxy = None
    /\ upstream = None
    /\ packageNamesCache = <<>>
    /\ views = None
    /\ listing = None
    /\ filterOptimizer = None
    /\ chain = None
    /\ cacheLoadingPromise = None
    /\ flight = None
    /\ wrapper = None
    /\ server \in {[facade |-> f, idle |-> 0, active |-> 0, signals |-> 0, signal |-> "",
                    closing |-> FALSE, now |-> 0, timers |-> {}, exited |-> FALSE,
                    code |-> 0] : f \in {"npm", "pypi"}}

\* The close callback and the timers run once they can, and time passes; a client may
\* keep its request open for ever.
SpecShutdown ==
    /\ InitShutdown
    /\ [][Connect \/ RequestBegins \/ RequestEnds \/ shutdown \/ Tick \/ Closed
            \/ ForcedShutdown]_vars
    /\ WF_vars(Closed) /\ WF_vars(ForcedShutdown) /\ WF_vars(Tick)

(***************************************************************************)
(* Claims about shutdown (SpecShutdown).                                   *)
(***************************************************************************)
\* C27: after SIGINT or SIGTERM a facade that exits does so with code 0, whether or not
\* connections were open when the signal arrived and however often it is delivered.
C27_ExitsWithZero == server.exited => server.code = 0

(***************************************************************************)
(* npm facade: loading of the package-name list and the sort barrier.      *)
(* loadPackageNamesCache is declared async but awaits nothing: it reads    *)
(* names.json with readFileSync inside the constructor, so the list is     *)
(* stored, whole, before the constructor returns.  cacheLoadingPromise is  *)
(* the promise derived from it with then and catch; it is fulfilled once   *)
(* the microtasks queued by the constructor have run, which is before the  *)
(* listen callback and so before any request.  A sorted unfiltered request *)
(* awaits the promise, which yields once, and goes on.                     *)
(***************************************************************************)
\* this.cacheLoadingPromise settles: 'Cache loading complete'.
CacheLoadingComplete ==
    /\ cacheLoadingPromise.state = "pending"
    /\ cacheLoadingPromise' = [cacheLoadingPromise EXCEPT !.state = "fulfilled"]
    /\ UNCHANGED <<proxy, upstream, packageNamesCache, views, listing, filterOptimizer,
                   chain, flight, wrapper, server>>

\* start(): the server listens; the callback of listen runs in a later turn of the
\* event loop than the constructor, after its microtasks.
start ==
    /\ cacheLoadingPromise.state # "pending"
    /\ ~server.listening
    /\ server' = [server EXCEPT !.listening = TRUE]
    /\ UNCHANGED <<proxy, upstream, packageNamesCache, views, listing, filterOptimizer,
                   chain, cacheLoadingPromise, flight, wrapper>>

\* GET /noderegistries/:registryId/packages arrives.  The handler runs to its first
\* await: with sort and without filter that is `await this.cacheLoadingPromise`,
\* otherwise the request is handled as in PackagesCollection.
PackagesRequested ==
    /\ server.listening
    /\ listing.stage = "none"
    /\ \E r \in {q \in ListingRequests :
                    q.filter \in {Absent, Param(<<"name", "=", "a", "*">>)}},
          u \in Searches :
            LET awaits == /\ r.registryId = "npmjs.org"
                          /\ ~(~intParam(r.limit, <<"2", "0">>).nan
                                  /\ intParam(r.limit, <<"2", "0">>).n <= 0)
                          /\ ~Truthy(r.filter)
                          /\ Truthy(r.sort)
            IN  listing' =
                    IF awaits
                    THEN [stage |-> "waiting", req |-> r, search |-> u,
                          res |-> problem(0, "pending")]
                    ELSE [stage |-> "answered", req |-> r, search |-> u,
                          res |-> packagesHandler(r, packageNamesCache,
                                                  filterOptimizer.names, upstream, u)]
    /\ UNCHANGED <<proxy, upstream, packageNamesCache, views, filterOptimizer, chain,
                   cacheLoadingPromise, flight, wrapper, server>>

\* The awaited promise is settled: 'Cache loaded', and the handler goes on.
CacheLoaded ==
    /\ listing.stage = "waiting"
    /\ cacheLoadingPromise.state # "pending"
    /\ listing' = [listing EXCEPT
                     !.stage = "answered",
                     !.res = packagesHandler(listing.req, packageNamesCache,
                                             filterOptimizer.names, upstream,
                                             listing.search)]
    /\ UNCHANGED <<proxy, upstream, packageNamesCache, views, filterOptimizer, chain,
                   cacheLoadingPromise, flight, wrapper, server>>

\* The state when the constructor returns: names.json was not found, or it held a list
\* that is now stored; the derived promise is still pending.
InitLoading ==
    /\ proxy = None
    /\ upstream = None
    /\ cacheLoadingPromise \in
          {[state |-> "pending", found |-> FALSE, allPackageNames |-> <<>>]}
             \cup {[state |-> "pending", found |-> TRUE, allPackageNames |-> f] :
                      f \in {<<>>, <<NameB>>, <<NameB, NameA>>,
                             <<NameB, NameScoped, NameA>>}}
    /\ packageNamesCache = IF cacheLoadingPromise.found
                           THEN loadPackageNamesCache(cacheLoadingPromise.allPackageNames)
                           ELSE <<>>
    /\ filterOptimizer = scheduleIndices(packageNamesCache)
    /\ views = None
    /\ listing = [stage |-> "none", req |-> None, search |-> None,
                  res |-> problem(0, "pending")]
    /\ chain = None
    /\ flight = None
    /\ wrapper = None
    /\ server = [listening |-> FALSE]

\* The microtasks, the listen callback and the continuation of an await run once they
\* can; no request need ever arrive.  The last conjunct is WF_vars(CacheLoaded) with
\* ENABLED <<CacheLoaded>>_vars written out as the guard of CacheLoaded.
SpecLoading ==
    /\ InitLoading
    /\ [][CacheLoadingComplete \/ start \/ PackagesRequested \/ CacheLoaded]_vars
    /\ WF_vars(CacheLoadingComplete) /\ WF_vars(start)
    /\ \/ []<>(~(listing.stage = "waiting" /\ cacheLoadingPromise.state # "pending"))
       \/ []<><<CacheLoaded>>_vars

(***************************************************************************)
(* Claims about the sort barrier (SpecLoading).                            *)
(***************************************************************************)
SortRequested ==
    /\ listing.stage # "none"
    /\ listing.req.registryId = "npmjs.org"
    /\ ~Truthy(listing.req.filter)
    /\ Truthy(listing.req.sort)

\* The stored list holds every name of names.json, each once.
CompletelyLoaded ==
    /\ cacheLoadingPromise.state = "fulfilled"
    /\ Len(packageNamesCache) = Len(cacheLoadingPromise.allPackageNames)
    /\ \A i \in 1..Len(cacheLoadingPromise.allPackageNames) :
          \E j \in 1..Len(packageNamesCache) :
              packageNamesCache[j] = cacheLoadingPromise.allPackageNames[i]

pathRewrite(path, apiPrefix, groupType) ==
    LET stripped == IF apiPrefix # <<>> /\ StartsWith(path, apiPrefix)
                    THEN IF Len(path) = Len(apiPrefix) THEN <<"/">>
                         ELSE SubSeq(path, Len(apiPrefix) + 1, Len(path))
                    ELSE path
    IN  IF StartsWith(stripped, <<"/", groupType>>) THEN stripped
        ELSE <<"/", groupType>> \o stripped

\* A request reaches the proxy middleware and its path is rewritten for the facade.
ProxyRequest ==
    /\ proxy.stage = "request"
    /\ proxy' = [proxy EXCEPT !.stage = "forwarded",
                              !.cleanPath = pathRewrite(proxy.path, proxy.apiPrefix,
                                                        proxy.groupType)]
    /\ UNCHANGED <<upstream, packageNamesCache, views, listing, filterOptimizer, chain,
                   cacheLoadingPromise, flight, wrapper, server>>

\* API_PATH_PREFIX is unset or /registry; the group type is that of the npm or of the
\* PyPI facade; the path has an optional part that is or resembles the prefix, an
\* optional part that is or resembles a group type, and the rest.
InitRewrite ==
    /\ proxy \in
          {q \in {[stage |-> "request", path |-> a \o g \o r, apiPrefix |-> p,
                   groupType |-> t, cleanPath |-> <<>>] :
                     a \in {<<>>, <<"/", "registry">>, <<"/", "registry", "x">>},
                     g \in {<<>>, <<"/", "noderegistries">>,
                            <<"/", "noderegistries", "x">>, <<"/", "pythonregistries">>},
                     r \in {<<>>, <<"/">>, <<"/", "packages">>, <<"?", "limit=1">>},
                     p \in {<<>>, <<"/", "registry">>},
                     t \in {"noderegistries", "pythonregistries"}} :
              StartsWith(q.path, <<"/">>)}
    /\ upstream = None
    /\ packageNamesCache = <<>>
    /\ views = None
    /\ listing = None
    /\ filterOptimizer = None
    /\ chain = None
    /\ cacheLoadingPromise = None
    /\ flight = None
    /\ wrapper = None
    /\ server = None

SpecRewrite == InitRewrite /\ [][ProxyRequest]_vars

(***************************************************************************)
(* Claims about pathRewrite (SpecRewrite).                                 *)
(***************************************************************************)
\* s begins with p and p ends where a segment of s ends.
WholeSegments(s, p) ==
    /\ StartsWith(s, p)
    /\ Len(s) > Len(p) => s[Len(p) + 1] \in {"/", "?"}

\* C29: the forwarded path begins with /<groupType> as a whole segment, once, and the
\* API_PATH_PREFIX is taken off the incoming path only where it is a whole leading
\* segment of it: a path that only shares leading characters with the prefix is
\* forwarded as it came, but for the group type put in front.
C29_WholeSegmentRewrite ==
    proxy.stage = "forwarded" =>
        LET group == <<"/", proxy.groupType>> IN
        /\ WholeSegments(proxy.cleanPath, group)
        /\ ~WholeSegments(SubSeq(proxy.cleanPath, 3, Len(proxy.cleanPath)), group)
        /\ ~(proxy.apiPrefix # <<>> /\ WholeSegments(proxy.path, proxy.apiPrefix))
              => proxy.cleanPath \in {proxy.path, group \o proxy.path}

(***************************************************************************)
(* npm facade: a client follows the rel="next" links of the packages       *)
(* collection.  views keeps the exchanges whose links were followed.       *)
(***************************************************************************)
MaxFollows == 2

\* The client requests the URL of the Link header of the page it received: the query
\* of that URL is limit=${limit}&offset=${nextOffset} and, for a filtered request,
\* &filter=${encodeURIComponent(filter)}; the query parser decodes the values.
FollowNext ==
    /\ listing.stage = "answered"
    /\ listing.res.link.present
    /\ Len(views) < MaxFollows
    /\ LET RECURSIVE digits(_), decode(_)
           digits(n) == IF n < 10 THEN <<Digits[n + 1]>>
                        ELSE digits(n \div 10) \o <<Digits[(n % 10) + 1]>>
           \* `${x}` of a number
           text(x) == IF x.nan THEN <<"N", "a", "N">>
                      ELSE IF x.n < 0 THEN <<"-">> \o digits(0 - x.n)
                      ELSE digits(x.n)
           escaped(code) == IF code = <<"4", "0">> THEN "@"
                            ELSE IF code = <<"2", "F">> THEN "/"
                            ELSE IF code = <<"3", "D">> THEN "="
                            ELSE IF code = <<"2", "B">> THEN "+"
                            ELSE "&"
           decode(t) == IF t = <<>> THEN <<>>
                        ELSE IF t[1] = "%" /\ Len(t) >= 3
                        THEN <<escaped(SubSeq(t, 2, 3))>> \o decode(SubSeq(t, 4, Len(t)))
                        ELSE <<t[1]>> \o decode(Tail(t))
           link == listing.res.link
       IN  /\ listing' = [listing EXCEPT
                            !.stage = "pending",
                            !.req = [registryId |-> "npmjs.org",
                                     baseUrl |-> listing.req.baseUrl,
                                     limit |-> Param(text(link.limit)),
                                     offset |-> Param(text(link.offset)),
                                     filter |-> IF link.filter.present
                                                THEN Param(decode(link.filter.text))
                                                ELSE Absent,
                                     sort |-> Absent],
                            !.res = problem(0, "pending")]
           /\ views' = Append(views, [req |-> listing.req, res |-> listing.res])
    /\ UNCHANGED <<proxy, upstream, packageNamesCache, filterOptimizer, chain,
                   cacheLoadingPromise, flight, wrapper, server>>

\* The first request of a client asks for the page at offset 0.
InitPaging ==
    /\ proxy = None
    /\ upstream = None
    /\ packageNamesCache \in {loadPackageNamesCache(f) :
                                f \in {<<>>, <<NameB>>, <<NameB, NameScoped, NameA>>}}
    /\ filterOptimizer = indicesOf(packageNamesCache)
    /\ views = <<>>
    /\ listing \in {[stage |-> "pending", req |-> r, search |-> u,
                     res |-> problem(0, "pending")] :
                        r \in {q \in ListingRequests : ~q.offset.present},
                        u \in Searches}
    /\ chain = None
    /\ cacheLoadingPromise = None
    /\ flight = None
    /\ wrapper = None
    /\ server = None

SpecPaging == InitPaging /\ [][PackagesCollection \/ FollowNext]_vars

(***************************************************************************)
(* Claims about following next links (SpecPaging).                         *)
(***************************************************************************)
\* C30: the request made by following a rel="next" link has the filter, the sort and
\* the limit of the request before it and that request's offset advanced by the limit,
\* and a page that follows a page served from the sorted name list is the next slice
\* of the same sorted list.
C30_NextReissuesQuery ==
    views # <<>> =>
        LET prev == views[Len(views)]
            limit == intParam(prev.req.limit, <<"2", "0">>)
            offset == Add(intParam(prev.req.offset, <<"0">>), limit)
            \* an absent parameter and an empty one are the same query
            value(p) == IF Truthy(p) THEN p.text ELSE <<>>
        IN  /\ value(listing.req.filter) = value(prev.req.filter)
            /\ value(listing.req.sort) = value(prev.req.sort)
            /\ intParam(listing.req.limit, <<"2", "0">>) = limit
            /\ intParam(listing.req.offset, <<"0">>) = offset
            /\ (listing.stage = "answered" /\ prev.res.mode = "sorted") =>
                  listing.res.packages =
                      packagesOf(prev.req.baseUrl,
                                 sortedSlice(packageNamesCache, prev.req.sort.text, limit,
                                             offset))
====
